---- MODULE Spec2Model ----
(***************************************************************************)
(* A model of Garments-QC-Automation.py: the value coercion and shading    *)
(* helpers, Emailer._classify_report / _analyze_report_data and the        *)
(* routing loop of Emailer.run, the sort and write loop of                 *)
(* DataEntryHandler.run, and the per-file loop of FileOrganizer.run.       *)
(*                                                                         *)
(* Conventions.  A Python str is a sequence of one-character strings.  A   *)
(* worksheet cell is a record [t, v, s]: t = "none" (empty cell), "num"    *)
(* (numeric cell, value v) or "str" (text cell, characters s).  Python     *)
(* floats are modelled by integers and a float expression a / b * 100 >= p *)
(* by its exact rational meaning a * 100 >= p * b (b > 0); int() of such a *)
(* number is the number itself.                                            *)
(***************************************************************************)
EXTENDS Integers, Sequences, FiniteSets, TLC

VARIABLES
    \* --- Emailer._is_critical_shading applied to one value
    sval,            \* the cell value handed to _is_critical_shading
    sres,            \* "unset", or the BOOLEAN it returned, as "True" / "False"
    \* --- Emailer.run / _classify_report / _analyze_report_data
    triggers,        \* email_filter_rules.pass_report_triggers
    files,           \* source_files_list: the report workbooks of the batch
    all_reports,     \* indices of the reports _get_report_data could read
    ri,              \* position of the routing loop in all_reports
    epc,             \* control point of Emailer.run
    loc,             \* locals of _analyze_report_data after coercion
    send_reason,     \* analysis["send_reason"] of the current report
    checked,         \* the checks evaluated for the current report, in order
    decision,        \* file index -> "NONE" | "SEND" | "REVIEW"
    reason_of,       \* file index -> the send_reason its analysis returned
    reports_to_send,
    reports_to_review,
    review_folder,   \* indices of the files copied to the manual review folder
    reviewed_count,
    attempted,       \* the (buyer, supplier) groups whose draft was begun, in order
    drafts,          \* the mail items of the mail client, in the order created
    drafts_created,
    mail_failed,     \* the mail client raised (lines 522-524)
    \* --- DataEntryHandler.run
    dfiles,          \* source_files_list of the data entry task
    denv,            \* the main workbook as found (EntryEnv)
    dpc,             \* control point of DataEntryHandler.run
    di,              \* position of the extraction loop / the write loop
    all_data_to_enter,
    sorted_data,
    next_row,
    sl_no_counter,
    ledger,          \* the rows written, in the order written: [row, sl_no, file_name]
    rows_entered,    \* the value run returns (-1 until it returns)
    excel_app,       \* the Excel started by xw.App: "none" | "running" | "quit"
    col_c,           \* column C of the ledger sheet: the <<row, serial number>> held
    clear_raised,    \* _clear_serial_numbers logged an error
    \* --- FileOrganizer.run
    ofiles,          \* source_files_list of the organizer
    opc,             \* control point of FileOrganizer.run
    oi,              \* position of the loop
    odata,           \* the data dict of the current file
    place,           \* file index -> "source" | "dest" | "error" | "absent"
    err_tried,       \* file index -> the move to the error directory was attempted
    organized_count,
    final_path,      \* file index -> the path it was moved to below output_dir
    moves,           \* file index -> the shutil.move calls made for it, in order
    \* --- openpyxl
    wb_open,         \* the report workbooks loaded and not yet closed
    wb_peak          \* the largest number of them open at one time so far

shadeVars == <<sval, sres>>
mailVars  == <<triggers, files, all_reports, ri, epc, loc, send_reason, checked,
               decision, reason_of, reports_to_send, reports_to_review,
               review_folder, reviewed_count, attempted, drafts, drafts_created,
               mail_failed>>
entryVars == <<dfiles, denv, dpc, di, all_data_to_enter, sorted_data, next_row,
               sl_no_counter, ledger, rows_entered, excel_app, col_c, clear_raised>>
orgVars   == <<ofiles, opc, oi, odata, place, err_tried, organized_count,
               final_path, moves>>
wbVars == <<wb_open, wb_peak>>
vars == <<shadeVars, mailVars, entryVars, orgVars, wbVars>>
nonMailVars == <<shadeVars, entryVars, orgVars>>
draftVars == <<attempted, drafts, drafts_created, mail_failed>>

----------------------------------------------------------------------------
(* Strings *)

UpperChars == <<"A","B","C","D","E","F","G","H","I","J","K","L","M",
                "N","O","P","Q","R","S","T","U","V","W","X","Y","Z">>
LowerChars == <<"a","b","c","d","e","f","g","h","i","j","k","l","m",
                "n","o","p","q","r","s","t","u","v","w","x","y","z">>
DigitChars == <<"0","1","2","3","4","5","6","7","8","9">>

\* the characters of the model in code point order
AsciiChars ==
    <<" ", "\"", "*", "+", "-", "/">> \o DigitChars \o <<":", "<", ">", "?">>
        \o UpperChars \o <<"\\">> \o LowerChars \o <<"|">>

\* ord(c), up to an order-preserving renumbering
Ord(c) == CHOOSE i \in 1..Len(AsciiChars) : AsciiChars[i] = c

\* a < b on str: by code points, a proper prefix first
RECURSIVE StrLess(_, _)
StrLess(a, b) ==
    IF b = <<>> THEN FALSE
    ELSE IF a = <<>> THEN TRUE
    ELSE IF Head(a) = Head(b) THEN StrLess(Tail(a), Tail(b))
    ELSE Ord(Head(a)) < Ord(Head(b))

\* str.lower() on one character
LowerChar(c) ==
    IF \E i \in 1..Len(UpperChars) : UpperChars[i] = c
    THEN LowerChars[CHOOSE i \in 1..Len(UpperChars) : UpperChars[i] = c]
    ELSE c

\* str.lower()
Lower(s) == [i \in 1..Len(s) |-> LowerChar(s[i])]

\* sub in s
Contains(s, sub) ==
    \E i \in 1..(Len(s) - Len(sub) + 1) : SubSeq(s, i, i + Len(sub) - 1) = sub

\* str.strip(): leading and trailing blanks removed
RECURSIVE LStrip(_)
LStrip(s) == IF s # <<>> /\ Head(s) = " " THEN LStrip(Tail(s)) ELSE s

RECURSIVE RStrip(_)
RStrip(s) ==
    IF s # <<>> /\ s[Len(s)] = " " THEN RStrip(SubSeq(s, 1, Len(s) - 1)) ELSE s

Strip(s) == RStrip(LStrip(s))

IsDigit(c) == \E i \in 1..Len(DigitChars) : DigitChars[i] = c

DigitValue(c) == (CHOOSE i \in 1..Len(DigitChars) : DigitChars[i] = c) - 1

IsDigits(s) == s # <<>> /\ \A i \in 1..Len(s) : IsDigit(s[i])

\* int() of a string of decimal digits
RECURSIVE DigitsValue(_)
DigitsValue(s) ==
    IF s = <<>> THEN 0
    ELSE DigitsValue(SubSeq(s, 1, Len(s) - 1)) * 10 + DigitValue(s[Len(s)])

\* the text of a non-negative int, str(n)
RECURSIVE IntText(_)
IntText(n) ==
    IF n < 10 THEN <<DigitChars[n + 1]>>
    ELSE Append(IntText(n \div 10), DigitChars[(n % 10) + 1])

\* str(n) of an int
NumText(n) == IF n < 0 THEN <<"-">> \o IntText(0 - n) ELSE IntText(n)

\* s.startswith(p)
StartsWith(s, p) == Len(s) >= Len(p) /\ SubSeq(s, 1, Len(p)) = p

----------------------------------------------------------------------------
(* Cells and value coercion *)

NoneCell   == [t |-> "none", v |-> 0, s |-> <<>>]
NumCell(n) == [t |-> "num", v |-> n, s |-> <<>>]
StrCell(x) == [t |-> "str", v |-> 0, s |-> x]

\* float(text) succeeds with a finite value: blanks around an optionally
\* signed run of digits (the model's texts hold no ".", exponent or "_")
FloatParses(s) ==
    LET b == Strip(s) IN
    \/ IsDigits(b)
    \/ b # <<>> /\ Head(b) \in {"-", "+"} /\ IsDigits(Tail(b))

FloatOf(s) ==
    LET b == Strip(s) IN
    IF IsDigits(b) THEN DigitsValue(b)
    ELSE IF Head(b) = "-" THEN 0 - DigitsValue(Tail(b))
    ELSE DigitsValue(Tail(b))

\* float(text) succeeds with inf or nan, on which int() raises
NonFiniteText(s) ==
    Lower(Strip(s)) \in {<<"i","n","f">>, <<"n","a","n">>}

\* safe_float (finite results; a non-finite text is never coerced to a number
\* here: its only use in the model is the check-roll cell, where int() raises)
safe_float(value) ==
    CASE value.t = "none" -> 0
      [] value.t = "num"  -> value.v
      [] value.t = "str" /\ ~NonFiniteText(value.s) ->
            IF FloatParses(value.s) THEN FloatOf(value.s) ELSE 0

\* str(value or '').strip(): an empty cell, a zero and an empty text give ''
CellText(value) ==
    CASE value.t = "none" -> <<>>
      [] value.t = "num"  -> IF value.v = 0 THEN <<>> ELSE NumText(value.v)
      [] value.t = "str"  -> Strip(value.s)

----------------------------------------------------------------------------
(* Workbook handles: openpyxl.load_workbook and wb.close() *)

Max(a, b) == IF a > b THEN a ELSE b

\* the handles as an action finds them
WbNow == [open |-> wb_open, peak |-> wb_peak]

\* load_workbook has returned the handle h
WbOpened(st, h) ==
    [open |-> st.open \cup {h}, peak |-> Max(st.peak, Cardinality(st.open \cup {h}))]

\* wb.close() on the handle h
WbClosed(st, h) == [st EXCEPT !.open = @ \ {h}]

\* the handles as an action leaves them
WbBecomes(st) == wb_open' = st.open /\ wb_peak' = st.peak

WbInit == wb_open = {} /\ wb_peak = 0

----------------------------------------------------------------------------
(* Emailer._is_critical_shading *)

\* str_val.split('/')[0]
RECURSIVE BeforeSlash(_)
BeforeSlash(s) ==
    IF s = <<>> \/ Head(s) = "/" THEN <<>>
    ELSE <<Head(s)>> \o BeforeSlash(Tail(s))

\* for comparison: a text that is no number taken as not critical
is_critical_shading_numbers_only(val) ==
    IF val.t = "none" THEN FALSE
    ELSE LET str_val == IF val.t = "num" THEN NumText(val.v) ELSE Strip(val.s)
             part == IF Contains(str_val, <<"/">>) THEN BeforeSlash(str_val) ELSE str_val
         IN  IF str_val = <<>> \/ ~FloatParses(part) THEN FALSE
             ELSE IF Contains(str_val, <<"/">>)
                  THEN safe_float(StrCell(part)) < 4
                  ELSE safe_float(StrCell(part)) <= 4

\* for comparison: the test with a value without '/' also counted critical
is_critical_shading_loose(val) ==
    IF val.t = "none" THEN FALSE
    ELSE LET str_val == IF val.t = "num" THEN NumText(val.v) ELSE Strip(val.s) IN
         IF str_val = <<>> THEN FALSE
         ELSE safe_float(StrCell(BeforeSlash(str_val))) <= 4

is_critical_shading(val) ==
    IF val.t = "none" THEN FALSE
    ELSE LET str_val == IF val.t = "num" THEN NumText(val.v) ELSE Strip(val.s) IN
         IF str_val = <<>> THEN FALSE
         ELSE IF Contains(str_val, <<"/">>)
              THEN safe_float(StrCell(BeforeSlash(str_val))) < 4
              ELSE safe_float(StrCell(str_val)) <= 4

----------------------------------------------------------------------------
(* Emailer._is_critical_shading as a function of one value *)

MaxLen == 3

ShadeAlphabet == {"3", "4", "5", "/", " ", "N"}

RECURSIVE TextsUpTo(_)
TextsUpTo(n) ==
    IF n = 0 THEN {<<>>}
    ELSE LET shorter == TextsUpTo(n - 1) IN
         shorter \cup {Append(x, c) : x \in shorter, c \in ShadeAlphabet}

ShadeInputs ==
    {NoneCell} \cup {NumCell(n) : n \in 3..5} \cup {StrCell(x) : x \in TextsUpTo(MaxLen)}

ShadeInit == sval \in ShadeInputs /\ sres = "unset"

ShadeIdle == sval = NoneCell /\ sres = "idle"

\* one call of _is_critical_shading(sval)
CallIsCriticalShading ==
    /\ sres = "unset"
    /\ sres' = IF is_critical_shading(sval) THEN "True" ELSE "False"
    /\ UNCHANGED <<sval, mailVars, entryVars, orgVars, wbVars>>

----------------------------------------------------------------------------
(* Emailer._analyze_report_data: the four checks *)

Min(a, b) == IF a < b THEN a ELSE b

\* line 333: the width shortage condition
\* for comparison: the condition with >= in place of >
WidthShortage_inclusive(l, t) ==
    /\ l.actual_width > 0
    /\ l.order_width > 0
    /\ l.order_width - l.actual_width >= t.width_shortage_tolerance_inch

WidthShortage(l, t) ==
    /\ l.actual_width > 0
    /\ l.order_width > 0
    /\ l.order_width - l.actual_width > t.width_shortage_tolerance_inch

\* a float division by zero raises ZeroDivisionError
DivRaises(d) == d = 0

\* lines 340-345: "hit" sets the length reason, "raise" is ZeroDivisionError
\* out of abs(short_excess) / ticked_yards, "miss" falls through
\* for comparison: the check without its ticked_yards > 0 guard
LengthOutcome_unguarded(l, t) ==
    IF l.short_excess < 0
    THEN IF DivRaises(l.ticked_yards) THEN "raise"
         ELSE IF (0 - l.short_excess) * 100 >= t.length_shortage_percentage * l.ticked_yards
              THEN "hit" ELSE "miss"
    ELSE "miss"

LengthOutcome(l, t) ==
    IF l.ticked_yards > 0 /\ l.short_excess < 0
    THEN IF DivRaises(l.ticked_yards) THEN "raise"
         ELSE IF (0 - l.short_excess) * 100 >= t.length_shortage_percentage * l.ticked_yards
              THEN "hit" ELSE "miss"
    ELSE "miss"

\* line 348
\* for comparison: the condition with > in place of >=
AvgPointHit_strict(l, t) == l.avg_point > t.avg_point_threshold

AvgPointHit(l, t) == l.avg_point >= t.avg_point_threshold

\* line 356: the sheets the shading scan visits
IsVisiblePage(sh) ==
    StartsWith(sh.title, <<"P","a","g","e"," ">>) /\ sh.sheet_state = "visible"

\* line 359: range(2, last_col + 1, 4)
\* for comparison: the walk begun at the first column
RollStarts_from_first(last_col) == {i \in 1..last_col : (i - 1) % 4 = 0}

RollStarts(last_col) == {i \in 2..last_col : (i - 2) % 4 = 0}

\* lines 360-367: some cell of rows 15..17 in columns i..i+3 (up to last_col)
RollIsCritical(sh, i) ==
    \E j \in i..Min(i + 3, sh.max_column) :
        \E k \in 15..17 : is_critical_shading(sh.cells[<<k, j>>])

\* lines 358-368 for one sheet
CriticalRollsOfSheet(sh) ==
    Cardinality({i \in RollStarts(sh.max_column) : RollIsCritical(sh, i)})

\* lines 355-368: critical_shade_rolls over the visible "Page " sheets
RECURSIVE CriticalShadeRolls(_)
CriticalShadeRolls(sheets) ==
    IF sheets = <<>> THEN 0
    ELSE (IF IsVisiblePage(Head(sheets)) THEN CriticalRollsOfSheet(Head(sheets)) ELSE 0)
         + CriticalShadeRolls(Tail(sheets))

\* line 358: sheet.max_column is None on a read-only sheet without dimensions,
\* and range(2, None + 1, 4) raises TypeError
ScanRaises(sheets) ==
    \E n \in 1..Len(sheets) : IsVisiblePage(sheets[n]) /\ ~sheets[n].has_dims

\* lines 354-374: "skip" when check_roll is not positive, "raise" when the scan
\* raises, else (critical_shade_rolls / check_roll) * 100 >= percentage
ShadingOutcome(sheets, l, t) ==
    IF l.check_roll > 0
    THEN IF ScanRaises(sheets) THEN "raise"
         ELSE IF DivRaises(l.check_roll) THEN "raise"
         ELSE IF CriticalShadeRolls(sheets) * 100
                    >= t.shading_percentage_threshold * l.check_roll
              THEN "hit" ELSE "miss"
    ELSE "skip"

\* analysis["send_reason"]: the check that set it and the numbers its text cites
\* (lines 317, 336, 344, 350, 373, 379)
Reason(kind, cites) == [kind |-> kind, cites |-> cites]

ReasonNone       == Reason("N/A", <<>>)
ReasonError      == Reason("Analysis Error", <<>>)
ReasonWidth(t)   == Reason("Width shortage >", <<t.width_shortage_tolerance_inch>>)
ReasonLength(t)  == Reason("Length shortage >=", <<t.length_shortage_percentage>>)
ReasonAvg(l, t)  == Reason("Avg point >= threshold", <<l.avg_point, t.avg_point_threshold>>)
ReasonShading(t) == Reason("Critical shading >=", <<t.shading_percentage_threshold>>)

\* the order of the checks in the body of _analyze_report_data
\* for comparison: the order with length tested before width
CheckAfter_length_first(c) ==
    CASE c = "load"   -> "length"
      [] c = "length" -> "width"
      [] c = "width"  -> "avg"
      [] c = "avg"    -> "shading"
      [] c = "shading" -> "ret"

CheckAfter(c) ==
    CASE c = "load"   -> "width"
      [] c = "width"  -> "length"
      [] c = "length" -> "avg"
      [] c = "avg"    -> "shading"
      [] c = "shading" -> "ret"

----------------------------------------------------------------------------
(* Emailer._classify_report *)

\* line 406: report.get('result', '').lower(), the result read by _get_report_data
ResultLower(f) == Lower(CellText(f.result))

\* line 408
\* for comparison: the test without 'rejected'
IsFailText_fail_only(result_lower) == Contains(result_lower, <<"f","a","i","l">>)

IsFailText(result_lower) ==
    \/ Contains(result_lower, <<"f","a","i","l">>)
    \/ Contains(result_lower, <<"r","e","j","e","c","t","e","d">>)

\* line 411
IsPassText(result_lower) == Contains(result_lower, <<"p","a","s","s">>)

\* line 413: the analysis result makes the report a SEND
AnalysisSends(reason) == reason # ReasonNone

----------------------------------------------------------------------------
(* Emailer.run *)

ZeroLoc == [order_width |-> 0, actual_width |-> 0, ticked_yards |-> 0,
            short_excess |-> 0, avg_point |-> 0, check_roll |-> 0]

Cur == files[all_reports[ri]]

\* the readable files, in order (lines 468-469)
RECURSIVE ReadableIndices(_, _)
ReadableIndices(fs, n) ==
    IF n > Len(fs) THEN <<>>
    ELSE (IF fs[n].readable THEN <<n>> ELSE <<>>) \o ReadableIndices(fs, n + 1)

\* the handle of the workbook _get_report_data loads for file n
ReportHandle(n) == <<"report", n>>

\* lines 400-402: finally: if wb: wb.close()
ReportDataFinally(st, n) == WbClosed(st, ReportHandle(n))

\* line 468: _get_report_data on file n and on those after it, one at a time
RECURSIVE ReadAll(_, _, _)
ReadAll(st, fs, n) ==
    IF n > Len(fs) THEN st
    ELSE ReadAll(ReportDataFinally(WbOpened(st, ReportHandle(n)), n), fs, n + 1)

\* lines 464-476
RunStart ==
    /\ epc = "start"
    /\ IF files = <<>>
       THEN epc' = "returned" /\ UNCHANGED <<all_reports, wbVars>>
       ELSE /\ all_reports' = ReadableIndices(files, 1)
            /\ epc' = IF all_reports' = <<>> THEN "copy" ELSE "classify"
            /\ WbBecomes(ReadAll(WbNow, files, 1))
    /\ UNCHANGED <<nonMailVars, triggers, files, ri, loc, send_reason, checked, decision,
                   reason_of, reports_to_send, reports_to_review, review_folder,
                   reviewed_count, draftVars>>

\* lines 406-412: the result text decides, or the analysis is called
ClassifyStart ==
    /\ epc = "classify"
    /\ LET result_lower == ResultLower(Cur) IN
       IF IsFailText(result_lower)
       THEN /\ decision' = [decision EXCEPT ![all_reports[ri]] = "SEND"]
            /\ epc' = "route"
       ELSE IF IsPassText(result_lower)
       THEN /\ epc' = "load"
            /\ UNCHANGED decision
       ELSE /\ decision' = [decision EXCEPT ![all_reports[ri]] = "REVIEW"]
            /\ epc' = "route"
    /\ send_reason' = ReasonNone
    /\ checked' = <<>>
    /\ loc' = ZeroLoc
    /\ UNCHANGED <<nonMailVars, triggers, files, all_reports, ri, reason_of,
                   reports_to_send, reports_to_review, review_folder, reviewed_count,
                   draftVars, wbVars>>

\* the handle of the workbook _analyze_report_data loads for the current report
AnalyzeHandle == <<"analyze", all_reports[ri]>>

\* for comparison: a return that leaves the workbook as it is
AnalysisFinally_skipped(st) == st

\* lines 380-382: finally: if wb: wb.close()
AnalysisFinally(st) == WbClosed(st, AnalyzeHandle)

\* an exception inside _analyze_report_data: lines 377-379
AnalysisRaised(st) ==
    /\ send_reason' = ReasonError
    /\ epc' = "ret"
    /\ WbBecomes(AnalysisFinally(st))

\* a check missed: on to the next one (or to the final return, line 376)
AnalysisContinues(c, st) ==
    /\ epc' = CheckAfter(c)
    /\ UNCHANGED send_reason
    /\ WbBecomes(IF CheckAfter(c) = "ret" THEN AnalysisFinally(st) ELSE st)

\* a check hit: its reason is set and the analysis returns
AnalysisHit(reason) ==
    /\ send_reason' = reason
    /\ epc' = "ret"
    /\ WbBecomes(AnalysisFinally(WbNow))

mailRest == <<nonMailVars, triggers, files, all_reports, ri, decision, reason_of,
              reports_to_send, reports_to_review, review_folder, reviewed_count,
              draftVars>>

\* lines 317-329: the workbook is loaded and the six values are coerced;
\* int() of a non-finite check-roll value raises
AnalyzeLoad ==
    /\ epc = "load"
    /\ LET st == WbOpened(WbNow, AnalyzeHandle) IN
       IF Cur.check_roll.t = "str" /\ NonFiniteText(Cur.check_roll.s)
       THEN AnalysisRaised(st) /\ UNCHANGED loc
       ELSE /\ loc' = [order_width  |-> safe_float(Cur.order_width),
                       actual_width |-> safe_float(Cur.actual_width),
                       ticked_yards |-> safe_float(Cur.ticked_yards),
                       short_excess |-> safe_float(Cur.total_short_excess),
                       avg_point    |-> safe_float(Cur.avg_point),
                       check_roll   |-> safe_float(Cur.check_roll)]
            /\ AnalysisContinues("load", st)
    /\ UNCHANGED <<checked, mailRest>>

\* lines 331-337
AnalyzeWidth ==
    /\ epc = "width"
    /\ checked' = Append(checked, "width")
    /\ IF WidthShortage(loc, triggers)
       THEN AnalysisHit(ReasonWidth(triggers))
       ELSE AnalysisContinues("width", WbNow)
    /\ UNCHANGED <<loc, mailRest>>

\* lines 339-345
AnalyzeLength ==
    /\ epc = "length"
    /\ checked' = Append(checked, "length")
    /\ LET o == LengthOutcome(loc, triggers) IN
       CASE o = "hit"   -> AnalysisHit(ReasonLength(triggers))
         [] o = "raise" -> AnalysisRaised(WbNow)
         [] o = "miss"  -> AnalysisContinues("length", WbNow)
    /\ UNCHANGED <<loc, mailRest>>

\* lines 347-351
AnalyzeAvgPoint ==
    /\ epc = "avg"
    /\ checked' = Append(checked, "avg")
    /\ IF AvgPointHit(loc, triggers)
       THEN AnalysisHit(ReasonAvg(loc, triggers))
       ELSE AnalysisContinues("avg", WbNow)
    /\ UNCHANGED <<loc, mailRest>>

\* lines 353-376
AnalyzeShading ==
    /\ epc = "shading"
    /\ checked' = Append(checked, "shading")
    /\ LET o == ShadingOutcome(Cur.sheets, loc, triggers) IN
       CASE o = "hit"   -> AnalysisHit(ReasonShading(triggers))
         [] o = "raise" -> AnalysisRaised(WbNow)
         [] o \in {"miss", "skip"} -> AnalysisContinues("shading", WbNow)
    /\ UNCHANGED <<loc, mailRest>>

\* lines 413-419: the analysis has returned to _classify_report
ClassifyReturn ==
    /\ epc = "ret"
    /\ decision' = [decision EXCEPT ![all_reports[ri]] =
                        IF AnalysisSends(send_reason) THEN "SEND" ELSE "REVIEW"]
    /\ reason_of' = [reason_of EXCEPT ![all_reports[ri]] = send_reason]
    /\ epc' = "route"
    /\ UNCHANGED <<nonMailVars, triggers, files, all_reports, ri, loc, send_reason,
                   checked, reports_to_send, reports_to_review, review_folder,
                   reviewed_count, draftVars, wbVars>>

\* lines 477-481: the report joins one of the two lists; the loop goes on
Route ==
    /\ epc = "route"
    /\ IF decision[all_reports[ri]] = "SEND"
       THEN /\ reports_to_send' = Append(reports_to_send, all_reports[ri])
            /\ UNCHANGED reports_to_review
       ELSE /\ reports_to_review' = Append(reports_to_review, all_reports[ri])
            /\ UNCHANGED reports_to_send
    /\ IF ri < Len(all_reports)
       THEN ri' = ri + 1 /\ epc' = "classify"
       ELSE UNCHANGED ri /\ epc' = "copy"
    /\ UNCHANGED <<nonMailVars, triggers, files, all_reports, loc, send_reason, checked,
                   decision, reason_of, review_folder, reviewed_count, draftVars, wbVars>>

SeqRange(q) == {q[n] : n \in 1..Len(q)}

\* lines 483-495: every review report is copied; a copy that raises is logged
\* and skipped.  With nothing to send the run returns, else the drafts follow.
CopyReview ==
    /\ epc = "copy"
    /\ \E copied \in SUBSET SeqRange(reports_to_review) :
          /\ review_folder' = copied
          /\ reviewed_count' = Cardinality(copied)
    /\ epc' = IF reports_to_send = <<>> THEN "returned" ELSE "dispatch"
    /\ UNCHANGED <<nonMailVars, triggers, files, all_reports, ri, loc, send_reason,
                   checked, decision, reason_of, reports_to_send, reports_to_review,
                   draftVars, wbVars>>

\* line 500: the key a report is grouped by, from the texts _get_report_data read
\* for comparison: the buyer alone
GroupKey_buyer_only(f) == <<CellText(f.buyer)>>

GroupKey(f) == <<CellText(f.buyer), CellText(f.supplier)>>

\* lines 498-500: the keys of grouped_reports, in the order a dict keeps them
RECURSIVE GroupKeys(_, _)
GroupKeys(fs, sent) ==
    IF sent = <<>> THEN <<>>
    ELSE LET before == GroupKeys(fs, SubSeq(sent, 1, Len(sent) - 1))
             k == GroupKey(fs[sent[Len(sent)]])
         IN  IF k \in SeqRange(before) THEN before ELSE Append(before, k)

\* grouped_reports[key]: the reports to send with that key, in order
GroupMembers(fs, sent, k) ==
    LET HasKey(n) == GroupKey(fs[n]) = k IN SelectSeq(sent, HasKey)

\* lines 506-507
HasFailReport(fs, members) ==
    \E i \in 1..Len(members) : IsFailText(ResultLower(fs[members[i]]))

\* line 508
Recipient(fs, members) ==
    IF HasFailReport(fs, members) THEN "primary_recipient" ELSE "secondary_recipient"

\* where Emailer.run is after the mail client raised
\* for comparison: the exception leaving Emailer.run
AfterMailFailure_raises == "raised"

\* lines 522-526: the exception is logged and the run returns its counts
AfterMailFailure == "returned"

MailFailure ==
    /\ mail_failed' = TRUE
    /\ epc' = AfterMailFailure

draftRest == <<nonMailVars, triggers, files, all_reports, ri, loc, send_reason, checked,
               decision, reason_of, reports_to_send, reports_to_review, review_folder,
               reviewed_count, wbVars>>

\* lines 497-504: the groups are formed and the mail client is reached
MailDispatch ==
    /\ epc = "dispatch"
    /\ \/ epc' = "draft" /\ UNCHANGED mail_failed
       \/ MailFailure
    /\ UNCHANGED <<draftRest, attempted, drafts, drafts_created>>

\* lines 505-521: the draft of the next group is built and saved, or the mail
\* client raises on the way and nothing of it is saved
DraftOne ==
    /\ epc = "draft"
    /\ LET keys == GroupKeys(files, reports_to_send)
           k == keys[Len(attempted) + 1]
           members == GroupMembers(files, reports_to_send, k)
       IN  /\ attempted' = Append(attempted, k)
           /\ \/ /\ drafts' = Append(drafts, [key |-> k,
                                              to |-> Recipient(files, members),
                                              attachments |-> members,
                                              saved |-> TRUE, sent |-> FALSE])
                 /\ drafts_created' = drafts_created + 1
                 /\ epc' = IF Len(attempted) + 1 < Len(keys) THEN "draft" ELSE "returned"
                 /\ UNCHANGED mail_failed
              \/ /\ MailFailure
                 /\ UNCHANGED <<drafts, drafts_created>>
    /\ UNCHANGED draftRest

MailNext ==
    \/ RunStart
    \/ ClassifyStart
    \/ AnalyzeLoad
    \/ AnalyzeWidth
    \/ AnalyzeLength
    \/ AnalyzeAvgPoint
    \/ AnalyzeShading
    \/ ClassifyReturn
    \/ Route
    \/ CopyReview
    \/ MailDispatch
    \/ DraftOne

----------------------------------------------------------------------------
(* The inputs of the Emailer specification *)

MaxCol    == 6
MaxSheets == 2
MaxBatch  == 2

TriggerSets ==
    { [width_shortage_tolerance_inch |-> 1, length_shortage_percentage |-> 1,
       avg_point_threshold |-> 10, shading_percentage_threshold |-> 50],
      [width_shortage_tolerance_inch |-> 2, length_shortage_percentage |-> 2,
       avg_point_threshold |-> 11, shading_percentage_threshold |-> 100] }

TxtPass     == <<"P","a","s","s">>
TxtPASSsp   == <<" ","P","A","S","S"," ">>
TxtFAIL     == <<"F","A","I","L">>
TxtRejected == <<"R","e","j","e","c","t","e","d">>
TxtPassFail == <<"P","a","s","s","/","F","a","i","l">>
TxtHold     == <<"H","o","l","d">>
TxtPage1    == <<"P","a","g","e"," ","1">>
TxtPageNoSp == <<"P","a","g","e","1">>
TxtData     == <<"D","a","t","a">>

\* A sheet with max_column mc.  Rows 14..18 are held: rows 14 and 18 carry a
\* low number in every column (content outside the shading rows); of rows
\* 15..17, each marked column holds "3/5" in one row, the other cells hold
\* "4/5" or are empty.
MakeSheet(title, state, dims, mc, marks) ==
    [title |-> title, sheet_state |-> state, has_dims |-> dims, max_column |-> mc,
     cells |-> [p \in (14..18) \X (1..mc) |->
                  IF p[1] \in {14, 18} THEN NumCell(3)
                  ELSE IF p[2] \in marks /\ p[1] = 15 + (p[2] % 3)
                       THEN StrCell(<<"3","/","5">>)
                  ELSE IF (p[1] + p[2]) % 2 = 0 THEN StrCell(<<"4","/","5">>)
                  ELSE NoneCell]]

\* visible "Page " sheets.  On the widest sheet up to two columns are marked,
\* among column 1 (before the first roll), columns 2 and 5 (the first roll's
\* ends) and the last column (a roll of fewer than 4 columns); on the narrower
\* sheets every column is marked.
PageSheets ==
    {MakeSheet(TxtPage1, "visible", TRUE, MaxCol, m) :
        m \in {x \in SUBSET {1, 2, 5, MaxCol} : Cardinality(x) <= 2}}
    \cup {MakeSheet(TxtPage1, "visible", TRUE, mc, 1..mc) : mc \in 1..(MaxCol - 1)}

\* sheets the scan passes over, every column marked
OtherSheets ==
    { MakeSheet(TxtPage1, "hidden", TRUE, MaxCol, 1..MaxCol),
      MakeSheet(TxtPageNoSp, "visible", TRUE, MaxCol, 1..MaxCol),
      MakeSheet(TxtData, "visible", TRUE, MaxCol, 1..MaxCol) }

\* a visible "Page " sheet without dimensions (max_column is None)
NoDimSheet == MakeSheet(TxtPage1, "visible", FALSE, 1, {})

RECURSIVE SeqsUpTo(_, _)
SeqsUpTo(S, n) ==
    IF n = 0 THEN {<<>>}
    ELSE LET shorter == SeqsUpTo(S, n - 1) IN
         shorter \cup {Append(q, x) : q \in shorter, x \in S}

MakeFile(result, ow, aw, ty, se, ap, cr, sheets) ==
    [readable |-> TRUE, result |-> result, order_width |-> ow, actual_width |-> aw,
     ticked_yards |-> ty, total_short_excess |-> se, avg_point |-> ap,
     check_roll |-> cr, sheets |-> sheets,
     buyer |-> StrCell(<<"A">>), supplier |-> StrCell(<<"S">>)]

\* a pass report none of whose first three checks matches under either trigger set
QuietPass(cr, sheets) ==
    MakeFile(StrCell(TxtPass), NumCell(60), NumCell(60), NumCell(100), NumCell(0),
             NumCell(5), cr, sheets)

\* pass reports with the summary values around every threshold
SummaryFiles ==
    { MakeFile(StrCell(r), ow, aw, ty, se, ap, cr, sh) :
        r  \in {TxtPass, TxtPASSsp},
        ow \in {NumCell(60), NoneCell, StrCell(<<"N">>)},
        aw \in {NumCell(57), NumCell(58), NumCell(59), NumCell(0)},
        ty \in {NumCell(100), NumCell(200), NumCell(0)},
        se \in {NumCell(-4), NumCell(-2), NumCell(-1), NumCell(1)},
        ap \in {NumCell(9), NumCell(10), NumCell(11)},
        cr \in {NumCell(0), NumCell(2), StrCell(<<"i","n","f">>)},
        sh \in {<<>>, <<MakeSheet(TxtPage1, "visible", TRUE, 2, {2})>>, <<NoDimSheet>>} }

\* pass reports with quiet summary values and the sheets varied
ShadingFiles ==
    { QuietPass(cr, sh) :
        cr \in {NumCell(0), NumCell(1), NumCell(2), NumCell(4)},
        sh \in SeqsUpTo(PageSheets \cup OtherSheets, MaxSheets) }

\* reports of other buyers and suppliers: a fail report of supplier T, and pass
\* reports short in width of supplier S (written with blanks) and of buyer B
OtherParties ==
    LET short(r) == MakeFile(StrCell(r), NumCell(60), NumCell(57), NumCell(100),
                             NumCell(0), NumCell(5), NumCell(2), <<>>)
    IN  { [short(TxtFAIL) EXCEPT !.supplier = StrCell(<<"T">>)],
          [short(TxtPass) EXCEPT !.supplier = StrCell(<<" ","S"," ">>)],
          [short(TxtPass) EXCEPT !.buyer = StrCell(<<"B">>)] }

\* reports of every kind of result text, for the batches
BatchFiles ==
    { MakeFile(r, NumCell(60), NumCell(57), NumCell(100), NumCell(0), NumCell(5),
               NumCell(2), <<>>) :
        r \in {StrCell(TxtFAIL), StrCell(TxtRejected), StrCell(TxtPassFail),
               StrCell(TxtHold), StrCell(TxtPass), NoneCell} }
    \cup { QuietPass(NumCell(2), <<>>),
           QuietPass(StrCell(<<"n","a","n">>), <<>>),
           QuietPass(NumCell(2), <<NoDimSheet>>),
           [QuietPass(NumCell(2), <<>>) EXCEPT !.readable = FALSE] }
    \cup OtherParties

TxtNA == <<"N","/","A">>
TxtOK == <<"O","K">>

\* a visible "Page " sheet whose marked shading cells hold a text that is no
\* number and whose other shading cells are empty; rows 14 and 18, outside the
\* shading rows, hold the text in every column
TextSheet(mc, marks, text) ==
    [title |-> TxtPage1, sheet_state |-> "visible", has_dims |-> TRUE, max_column |-> mc,
     cells |-> [p \in (14..18) \X (1..mc) |->
                  IF p[1] \in {14, 18} THEN StrCell(text)
                  ELSE IF p[2] \in marks /\ p[1] = 15 + (p[2] % 3) THEN StrCell(text)
                  ELSE NoneCell]]

\* pass reports whose shading cells hold such texts
TextShadeFiles ==
    { QuietPass(NumCell(cr), <<TextSheet(mc, m, t)>>) :
        cr \in {1, 2, 4}, mc \in {MaxCol - 1, MaxCol},
        m \in {{1}, {2}, {3, MaxCol}, {2, MaxCol}}, t \in {TxtNA, TxtOK} }

MailInputs ==
    {<<f>> : f \in SummaryFiles \cup ShadingFiles \cup TextShadeFiles}
        \cup SeqsUpTo(BatchFiles, MaxBatch)

MailInit ==
    /\ triggers \in TriggerSets
    /\ files \in MailInputs
    /\ all_reports = <<>>
    /\ ri = 1
    /\ epc = "start"
    /\ loc = ZeroLoc
    /\ send_reason = ReasonNone
    /\ checked = <<>>
    /\ decision = [n \in 1..Len(files) |-> "NONE"]
    /\ reason_of = [n \in 1..Len(files) |-> ReasonNone]
    /\ reports_to_send = <<>>
    /\ reports_to_review = <<>>
    /\ review_folder = {}
    /\ reviewed_count = 0
    /\ attempted = <<>>
    /\ drafts = <<>>
    /\ drafts_created = 0
    /\ mail_failed = FALSE

MailIdle ==
    /\ triggers = CHOOSE t \in TriggerSets : TRUE
    /\ files = <<>>
    /\ all_reports = <<>>
    /\ ri = 1
    /\ epc = "idle"
    /\ loc = ZeroLoc
    /\ send_reason = ReasonNone
    /\ checked = <<>>
    /\ decision = <<>>
    /\ reason_of = <<>>
    /\ reports_to_send = <<>>
    /\ reports_to_review = <<>>
    /\ review_folder = {}
    /\ reviewed_count = 0
    /\ attempted = <<>>
    /\ drafts = <<>>
    /\ drafts_created = 0
    /\ mail_failed = FALSE

----------------------------------------------------------------------------
(* DataEntryHandler *)

\* line 246: the first row data entry may write
MinStartRow == 181
\* line 245: ws.cells.last_cell.row + 1, when the table has no empty invoice cell
PastLastRow == 1048577

\* the sort key tuple (buyer, consignment_num, result, rolls)
SortKey(b, c, r, n) == [buyer |-> b, consignment_num |-> c, result |-> r, rolls |-> n]

\* lines 141-161.  The rolls cell is a whole number in the model, so that
\* int(safe_float(rolls_val)) keeps its value; a non-finite text makes int() raise.
get_sorting_keys_from_file(f) ==
    IF ~f.keys_ok \/ (f.rolls.t = "str" /\ NonFiniteText(f.rolls.s))
    THEN SortKey(<<>>, 0, <<>>, 0)
    ELSE LET consignment_val == CellText(f.consignment)
             numeric_part == SelectSeq(consignment_val, IsDigit)
         IN  SortKey(CellText(f.buyer),
                     IF consignment_val # <<>> /\ numeric_part # <<>>
                     THEN DigitsValue(numeric_part) ELSE 0,
                     CellText(f.result),
                     safe_float(f.rolls))

\* a < b on the key tuples, as Python compares tuples (line 217), with the
\* consignment compared as its decimal text
KeyLess_text_consignment(a, b) ==
    \/ StrLess(a.buyer, b.buyer)
    \/ /\ a.buyer = b.buyer
       /\ \/ StrLess(NumText(a.consignment_num), NumText(b.consignment_num))
          \/ /\ a.consignment_num = b.consignment_num
             /\ \/ StrLess(a.result, b.result)
                \/ a.result = b.result /\ a.rolls < b.rolls

\* a < b on the key tuples, as Python compares tuples (line 217)
KeyLess(a, b) ==
    \/ StrLess(a.buyer, b.buyer)
    \/ /\ a.buyer = b.buyer
       /\ \/ a.consignment_num < b.consignment_num
          \/ /\ a.consignment_num = b.consignment_num
             /\ \/ StrLess(a.result, b.result)
                \/ a.result = b.result /\ a.rolls < b.rolls

\* one item placed into a sorted list behind every item not greater than it
RECURSIVE InsertByKey(_, _)
InsertByKey(q, item) ==
    IF q = <<>> THEN <<item>>
    ELSE IF KeyLess(item.sort_keys, q[Len(q)].sort_keys)
         THEN Append(InsertByKey(SubSeq(q, 1, Len(q) - 1), item), q[Len(q)])
         ELSE Append(q, item)

\* sorted(all_data_to_enter, key=lambda x: x['sort_keys']) (line 217): stable
RECURSIVE SortedByKeys(_)
SortedByKeys(q) ==
    IF q = <<>> THEN <<>>
    ELSE InsertByKey(SortedByKeys(SubSeq(q, 1, Len(q) - 1)), q[Len(q)])

entryRest == <<shadeVars, mailVars, orgVars, dfiles, denv>>

\* lines 204-209
EntryStart ==
    /\ dpc = "start"
    /\ IF dfiles = <<>>
       THEN dpc' = "done" /\ rows_entered' = 0
       ELSE dpc' = "extract" /\ UNCHANGED rows_entered
    /\ UNCHANGED <<entryRest, di, all_data_to_enter, sorted_data, next_row,
                   sl_no_counter, ledger, excel_app, col_c, clear_raised, wbVars>>

\* the handles of the workbooks _extract_data_for_entry and
\* _get_sorting_keys_from_file load for file n
ExtractHandle(n) == <<"extract", n>>
SortKeysHandle(n) == <<"keys", n>>

\* lines 197-199: finally: if workbook: workbook.close()
ExtractFinally(st, n) == WbClosed(st, ExtractHandle(n))

\* lines 159-161: finally: if wb: wb.close()
SortKeysFinally(st, n) == WbClosed(st, SortKeysHandle(n))

\* lines 212-215: all_data_to_enter after file n
\* for comparison: a failed extraction emptying the list
Extracted_all_or_nothing(all, f, n) ==
    IF f.extract_ok
    THEN Append(all, [file_name |-> n, sort_keys |-> get_sorting_keys_from_file(f)])
    ELSE <<>>

Extracted(all, f, n) ==
    IF f.extract_ok
    THEN Append(all, [file_name |-> n, sort_keys |-> get_sorting_keys_from_file(f)])
    ELSE all

\* lines 210-215: one file of the extraction loop.  The workbook is loaded and
\* closed for the extraction and, if that gave data, once more for the keys.
EntryExtract ==
    /\ dpc = "extract"
    /\ all_data_to_enter' = Extracted(all_data_to_enter, dfiles[di], di)
    /\ LET read == ExtractFinally(WbOpened(WbNow, ExtractHandle(di)), di) IN
       WbBecomes(IF dfiles[di].extract_ok
                 THEN SortKeysFinally(WbOpened(read, SortKeysHandle(di)), di)
                 ELSE read)
    /\ IF di < Len(dfiles)
       THEN di' = di + 1 /\ dpc' = "extract"
       ELSE di' = 1 /\ dpc' = "sort"
    /\ UNCHANGED <<entryRest, sorted_data, next_row, sl_no_counter, ledger, rows_entered,
                   excel_app, col_c, clear_raised>>

\* lines 217-222
EntrySort ==
    /\ dpc = "sort"
    /\ sorted_data' = SortedByKeys(all_data_to_enter)
    /\ IF denv.main_exists
       THEN dpc' = "open" /\ UNCHANGED rows_entered
       ELSE dpc' = "done" /\ rows_entered' = 0
    /\ UNCHANGED <<entryRest, di, all_data_to_enter, next_row, sl_no_counter, ledger,
                   excel_app, col_c, clear_raised, wbVars>>

\* lines 277-281: finally: the books are closed and a started Excel is quit
EntryFinally(app) == IF app = "running" THEN "quit" ELSE app

\* lines 132-134: column C of the table body, rows 2 .. table_last_row, emptied
ClearedColumn(col, env) == {p \in col : p[1] \notin 2..env.table_last_row}

\* lines 245-246
\* for comparison: the first empty row taken as it is
StartRow_unclamped(first_empty_row) == first_empty_row

StartRow(first_empty_row) ==
    IF first_empty_row < MinStartRow THEN MinStartRow ELSE first_empty_row

\* lines 224-249: Excel is started, the serial numbers are cleared (a failure
\* of that is only logged, lines 136-137), the table is found and the start
\* row chosen; an exception (lines 274-276) or a missing table (lines 233-235)
\* returns 0
EntryOpen ==
    /\ dpc = "open"
    /\ IF denv.excel_ok /\ denv.table_found
       THEN /\ \E clear_ok \in BOOLEAN :
                  /\ col_c' = IF clear_ok THEN ClearedColumn(col_c, denv) ELSE col_c
                  /\ clear_raised' = ~clear_ok
            /\ excel_app' = "running"
            /\ next_row' = StartRow(denv.first_empty_row)
            /\ sl_no_counter' = 1
            /\ dpc' = IF sorted_data = <<>> THEN "save" ELSE "write"
            /\ UNCHANGED rows_entered
       ELSE /\ dpc' = "done"
            /\ rows_entered' = 0
            /\ \E started \in BOOLEAN :
                  /\ denv.excel_ok => started
                  /\ excel_app' = IF started THEN EntryFinally("running") ELSE excel_app
            /\ clear_raised' = (denv.excel_ok /\ ~denv.table_found)
            /\ UNCHANGED <<next_row, sl_no_counter, col_c>>
    /\ UNCHANGED <<entryRest, di, all_data_to_enter, sorted_data, ledger, wbVars>>

\* lines 250-260: one item of the write loop.  Row PastLastRow is not a row of
\* the sheet: there line 253 can only raise.
EntryWriteRow ==
    /\ dpc = "write"
    /\ next_row < PastLastRow
    /\ ledger' = Append(ledger, [row |-> next_row, sl_no |-> sl_no_counter,
                                 file_name |-> sorted_data[di].file_name])
    /\ col_c' = {p \in col_c : p[1] # next_row} \cup {<<next_row, sl_no_counter>>}
    /\ next_row' = next_row + 1
    /\ sl_no_counter' = sl_no_counter + 1
    /\ IF di < Len(sorted_data)
       THEN di' = di + 1 /\ dpc' = "write"
       ELSE di' = di /\ dpc' = "save"
    /\ UNCHANGED <<entryRest, all_data_to_enter, sorted_data, rows_entered, excel_app,
                   clear_raised, wbVars>>

\* line 253 raises (the serial number cell cannot be written): lines 274-281
EntryWriteRaises ==
    /\ dpc = "write"
    /\ dpc' = "done"
    /\ rows_entered' = 0
    /\ excel_app' = EntryFinally(excel_app)
    /\ UNCHANGED <<entryRest, di, all_data_to_enter, sorted_data, next_row,
                   sl_no_counter, ledger, col_c, clear_raised, wbVars>>

\* lines 262-281: save, backup (its failure is only logged), return
EntrySave ==
    /\ dpc = "save"
    /\ dpc' = "done"
    /\ rows_entered' = Len(sorted_data)
    /\ excel_app' = EntryFinally(excel_app)
    /\ UNCHANGED <<entryRest, di, all_data_to_enter, sorted_data, next_row,
                   sl_no_counter, ledger, col_c, clear_raised, wbVars>>

EntryNext ==
    \/ EntryStart
    \/ EntryExtract
    \/ EntrySort
    \/ EntryOpen
    \/ EntryWriteRow
    \/ EntryWriteRaises
    \/ EntrySave

----------------------------------------------------------------------------
(* The inputs of the data entry specification *)

MaxFiles == 3

EntryFile(b, c, r, n) ==
    [extract_ok |-> TRUE, keys_ok |-> TRUE, buyer |-> StrCell(b), consignment |-> c,
     result |-> StrCell(r), rolls |-> NumCell(n)]

EntryFiles ==
    { EntryFile(<<"A">>, StrCell(<<"2">>), TxtPass, 10),
      EntryFile(<<"A">>, NumCell(1), TxtFAIL, 5),
      EntryFile(<<"B">>, StrCell(<<"1">>), TxtPass, 1),
      EntryFile(<<"A">>, NumCell(10), TxtPass, 10),
      EntryFile(<<"A","B">>, StrCell(<<"C","-","1">>), TxtPass, 1),
      EntryFile(<<"A">>, StrCell(<<"0","2">>), TxtPass, 5),
      EntryFile(<<" ","A">>, NumCell(2), TxtFAIL, 10),
      [EntryFile(<<"B">>, StrCell(<<"1">>), TxtPass, 1) EXCEPT !.keys_ok = FALSE],
      [EntryFile(<<"A">>, StrCell(<<"2">>), TxtPass, 10) EXCEPT !.extract_ok = FALSE] }

\* the main workbook as found: the first empty row of the invoice column, the
\* last row of the table, and the rows of column C that hold a serial number
EntryEnv(first_empty_row, table_last_row, old_rows) ==
    [main_exists |-> TRUE, excel_ok |-> TRUE, table_found |-> TRUE,
     first_empty_row |-> first_empty_row, table_last_row |-> table_last_row,
     old_rows |-> old_rows]

EntryEnvs ==
    { EntryEnv(2, 2, {}),
      EntryEnv(MinStartRow, MinStartRow - 1, {MinStartRow - 2, MinStartRow - 1}),
      EntryEnv(MinStartRow + 2, MinStartRow + 9, {MinStartRow + 1, MinStartRow + 3}),
      EntryEnv(PastLastRow - 1, PastLastRow - 2, {PastLastRow - 2}),
      EntryEnv(PastLastRow, MinStartRow, {MinStartRow}),
      [EntryEnv(2, 2, {}) EXCEPT !.main_exists = FALSE],
      [EntryEnv(2, 2, {}) EXCEPT !.excel_ok = FALSE],
      [EntryEnv(MinStartRow, MinStartRow - 1, {MinStartRow - 1})
          EXCEPT !.table_found = FALSE] }

\* column C as the run finds it: a row with a serial number holds its place in
\* the table
OldColumn(env) == {<<r, r - 1>> : r \in env.old_rows}

EntryInit ==
    /\ dfiles \in SeqsUpTo(EntryFiles, MaxFiles)
    /\ denv \in EntryEnvs
    /\ dpc = "start"
    /\ di = 1
    /\ all_data_to_enter = <<>>
    /\ sorted_data = <<>>
    /\ next_row = 0
    /\ sl_no_counter = 0
    /\ ledger = <<>>
    /\ rows_entered = -1
    /\ excel_app = "none"
    /\ col_c = OldColumn(denv)
    /\ clear_raised = FALSE

EntryIdle ==
    /\ dfiles = <<>>
    /\ denv = EntryEnv(2, 2, {})
    /\ dpc = "idle"
    /\ di = 1
    /\ all_data_to_enter = <<>>
    /\ sorted_data = <<>>
    /\ next_row = 0
    /\ sl_no_counter = 0
    /\ ledger = <<>>
    /\ rows_entered = -1
    /\ excel_app = "none"
    /\ col_c = {}
    /\ clear_raised = FALSE

----------------------------------------------------------------------------
(* FileOrganizer *)

\* line 546: the characters re.sub removes
ForbiddenChars == {"\\", "/", "*", "?", ":", "\"", "<", ">", "|"}

IsAllowedChar(c) == c \notin ForbiddenChars

\* for comparison: a sanitizer that puts a blank where a character is removed
clean_name_blanking(value) ==
    LET t == CellText(value) IN
    [i \in 1..Len(t) |-> IF IsAllowedChar(t[i]) THEN t[i] ELSE " "]

\* _clean_name of a cell value (lines 543-546)
clean_name(value) == SelectSeq(CellText(value), IsAllowedChar)

\* lines 592-596 and 598-602: _clean_name(int(safe_float(v))), where int() of nan
\* raises ValueError and the raw value is cleaned instead
clean_int(value) ==
    IF value.t = "str" /\ Lower(Strip(value.s)) = <<"n","a","n">>
    THEN clean_name(value)
    ELSE clean_name(NumCell(safe_float(value)))

\* int() of inf raises OverflowError, which lines 595 and 601 do not catch
IntOverflows(value) == value.t = "str" /\ Lower(Strip(value.s)) = <<"i","n","f">>

\* a date cell: openpyxl hands a datetime; v is year * 10000 + month * 100 + day
DateCell(y, m, d) == [t |-> "date", v |-> y * 10000 + m * 100 + d, s |-> <<>>]

\* %d, %m and %y of strftime: two digits each
TwoDigits(n) == <<DigitChars[((n \div 10) % 10) + 1], DigitChars[(n % 10) + 1]>>

\* strftime("(%d-%m-%y)") of the date v
DateText(v) ==
    <<"(">> \o TwoDigits(v % 100) \o <<"-">> \o TwoDigits((v \div 100) % 100)
        \o <<"-">> \o TwoDigits((v \div 10000) % 100) \o <<")">>

\* a text pd.to_datetime parses: the model knows the form YYYY-MM-DD
IsIsoDate(s) ==
    /\ Len(s) = 10
    /\ s[5] = "-" /\ s[8] = "-"
    /\ \A i \in {1, 2, 3, 4, 6, 7, 9, 10} : IsDigit(s[i])

\* a text pd.to_datetime cannot parse (ValueError): the model knows the texts
\* with a letter in them and no digit
IsNoDate(s) ==
    /\ \E i \in 1..Len(s) : LowerChar(s[i]) # s[i] \/ s[i] \in SeqRange(LowerChars)
    /\ \A i \in 1..Len(s) : ~IsDigit(s[i])

\* line 553 on an empty cell: pd.to_datetime(None) is None, and None.strftime
\* raises AttributeError, which line 554 does not catch
DateRaises(value) == value.t = "none"

\* _format_date (lines 548-555) where it returns
format_date(value) ==
    CASE value.t = "date" -> DateText(value.v)
      [] value.t = "num" -> DateText(19700101)
      [] value.t = "str" /\ IsIsoDate(Strip(value.s)) ->
            LET s == Strip(value.s) IN
            DateText(DigitsValue(SubSeq(s, 1, 4)) * 10000
                        + DigitsValue(SubSeq(s, 6, 7)) * 100
                        + DigitsValue(SubSeq(s, 9, 10)))
      [] value.t = "str" /\ IsNoDate(Strip(value.s)) ->
            <<"(">> \o clean_name(value) \o <<")">>

\* lines 588-602: the data dict
OrganizerData(f) ==
    [buyer |-> clean_name(f.buyer), supplier |-> clean_name(f.supplier),
     consignment |-> clean_int(f.consignment), rolls |-> clean_int(f.rolls),
     style |-> clean_name(f.style), color |-> clean_name(f.color),
     fabric_code |-> clean_name(f.fabric_code), date |-> format_date(f.date)]

NoData == [buyer |-> <<>>, supplier |-> <<>>, consignment |-> <<>>, rolls |-> <<>>,
           style |-> <<>>, color |-> <<>>, fabric_code |-> <<>>, date |-> <<>>]

\* line 607: all([data['buyer'], data['supplier'], data['consignment']])
\* for comparison: the test on buyer and supplier alone
RequiredPresent_without_consignment(data) ==
    data.buyer # <<>> /\ data.supplier # <<>>

RequiredPresent(data) ==
    data.buyer # <<>> /\ data.supplier # <<>> /\ data.consignment # <<>>

\* line 610: f"CON-{data['consignment']} {data['date']}"
FolderName(data) == <<"C","O","N","-">> \o data.consignment \o <<" ">> \o data.date

\* line 614
NewFilename(data, suffix) ==
    data.style \o <<",", " ", "C","O","L","O","R","-">> \o data.color
        \o <<",", " ", "R","o","l","l","-">> \o data.rolls
        \o <<",", " ">> \o data.fabric_code \o suffix

\* lines 611 and 615: final_path, as its components below output_dir
FinalPath(data, suffix) == <<data.buyer, FolderName(data), NewFilename(data, suffix)>>

\* file_path.name
FileName(f) == f.stem \o f.suffix

NoPath == <<>>

orgRest == <<shadeVars, mailVars, entryVars, ofiles>>

\* the loop goes to the next file, or ends
OrgAdvance ==
    IF oi < Len(ofiles)
    THEN oi' = oi + 1 /\ opc' = "file"
    ELSE oi' = oi /\ opc' = "cleanup"

\* lines 569-577
OrgStart ==
    /\ opc = "start"
    /\ opc' = IF ofiles = <<>> THEN "done" ELSE "file"
    /\ UNCHANGED <<orgRest, oi, odata, place, err_tried, organized_count, final_path,
                   moves, wbVars>>

\* lines 579-580: a file that is no longer at its source path is passed over
OrgSkipMissing ==
    /\ opc = "file"
    /\ place[oi] # "source"
    /\ OrgAdvance
    /\ UNCHANGED <<orgRest, odata, place, err_tried, organized_count, final_path,
                   moves, wbVars>>

\* the handle of the workbook FileOrganizer.run loads for file n
OrgHandle(n) == <<"organize", n>>

\* lines 582-605: the workbook is loaded, the data dict built, the workbook
\* closed.  load_workbook may raise (wb stays None); with the workbook open, a
\* failing read, int() overflowing or the date raising leaves it open for the
\* handler of line 620
OrgRead ==
    /\ opc = "file"
    /\ place[oi] = "source"
    /\ \E load_ok \in BOOLEAN, read_ok \in BOOLEAN :
          IF ~load_ok
          THEN odata' = NoData /\ opc' = "except" /\ UNCHANGED wbVars
          ELSE IF read_ok /\ ~IntOverflows(ofiles[oi].consignment)
                          /\ ~IntOverflows(ofiles[oi].rolls)
                          /\ ~DateRaises(ofiles[oi].date)
          THEN odata' = OrganizerData(ofiles[oi]) /\ opc' = "validate"
                  /\ WbBecomes(WbClosed(WbOpened(WbNow, OrgHandle(oi)), OrgHandle(oi)))
          ELSE odata' = NoData /\ opc' = "except"
                  /\ WbBecomes(WbOpened(WbNow, OrgHandle(oi)))
    /\ UNCHANGED <<orgRest, oi, place, err_tried, organized_count, final_path, moves>>

\* lines 607-619: the required fields are checked and the file is moved into
\* the buyer / consignment tree; a missing field raises before the move, a
\* failing mkdir or move raises
OrgMove ==
    /\ opc = "validate"
    /\ IF RequiredPresent(odata)
       THEN \E move_ok \in BOOLEAN :
               /\ moves' = [moves EXCEPT ![oi] = Append(@, "dest")]
               /\ IF move_ok
                  THEN /\ place' = [place EXCEPT ![oi] = "dest"]
                       /\ final_path' = [final_path EXCEPT ![oi] =
                                            FinalPath(odata, ofiles[oi].suffix)]
                       /\ organized_count' = organized_count + 1
                       /\ OrgAdvance
                  ELSE /\ opc' = "except"
                       /\ UNCHANGED <<oi, place, final_path, organized_count>>
       ELSE /\ opc' = "except"
            /\ UNCHANGED <<oi, place, final_path, organized_count, moves>>
    /\ UNCHANGED <<orgRest, odata, err_tried, wbVars>>

\* line 622: if wb: wb.close()
OrgCloseInHandler(st, n) == WbClosed(st, OrgHandle(n))

\* lines 620-626: the workbook is closed if still open and the file is moved
\* to the error directory; a failure of that move is only logged
OrgError ==
    /\ opc = "except"
    /\ WbBecomes(OrgCloseInHandler(WbNow, oi))
    /\ err_tried' = [err_tried EXCEPT ![oi] = TRUE]
    /\ moves' = [moves EXCEPT ![oi] = Append(@, "error")]
    /\ \E move_ok \in BOOLEAN :
          place' = IF move_ok THEN [place EXCEPT ![oi] = "error"] ELSE place
    /\ OrgAdvance
    /\ UNCHANGED <<orgRest, odata, organized_count, final_path>>

\* lines 628-631
OrgFinish ==
    /\ opc = "cleanup"
    /\ opc' = "done"
    /\ UNCHANGED <<orgRest, oi, odata, place, err_tried, organized_count, final_path,
                   moves, wbVars>>

OrgNext ==
    \/ OrgStart
    \/ OrgSkipMissing
    \/ OrgRead
    \/ OrgMove
    \/ OrgError
    \/ OrgFinish

----------------------------------------------------------------------------
(* The inputs of the organizer specification *)

MaxOrgFiles == 2

TxtXlsx == <<".","x","l","s","x">>
TxtXlsm == <<".","x","l","s","m">>
TxtS1   == <<"S","1">>
TxtRed  == <<"R","e","d">>
TxtFC1  == <<"F","C","1">>

\* a report workbook as the organizer reads it.  Two files of a batch with the
\* same stem and suffix lie in different folders below the source directory.
OrgFile(b, s, c) ==
    [exists |-> TRUE, stem |-> <<"r","1">>, suffix |-> TxtXlsx,
     buyer |-> b, supplier |-> s, consignment |-> c, rolls |-> NumCell(20),
     style |-> StrCell(TxtS1), color |-> StrCell(TxtRed),
     fabric_code |-> StrCell(TxtFC1), date |-> DateCell(2024, 5, 1)]

GoodOrgFile == OrgFile(StrCell(<<"A","/","C">>), StrCell(<<"S">>), NumCell(12))

\* the report of the filing example: text cells for consignment and rolls
AcmeFile ==
    [OrgFile(StrCell(<<"A","c","m","e","/","C","o">>), StrCell(<<"S">>),
             StrCell(<<"1","2">>))
       EXCEPT !.rolls = StrCell(<<"2","0">>)]

\* a complete report, and reports with one field (or two) varied
OrgFiles ==
    { GoodOrgFile, [GoodOrgFile EXCEPT !.exists = FALSE],
      OrgFile(NoneCell, NoneCell, NumCell(12)), AcmeFile }
    \cup { [GoodOrgFile EXCEPT !.buyer = b] :
             b \in {NoneCell, StrCell(<<"/">>), StrCell(<<" ">>)} }
    \cup { [GoodOrgFile EXCEPT !.supplier = x] :
             x \in {NoneCell, StrCell(<<"*","?">>)} }
    \cup { [GoodOrgFile EXCEPT !.consignment = c] :
             c \in {NoneCell, StrCell(<<"1","2">>), StrCell(<<"/">>), StrCell(<<" ">>),
                    StrCell(<<"n","a","n">>), StrCell(<<"i","n","f">>), NumCell(0),
                    StrCell(<<" ","0","1","2">>), StrCell(<<"C","-","1","2">>)} }
    \cup { [AcmeFile EXCEPT !.date = d] :
             d \in {NoneCell, NumCell(45413), StrCell(<<"2","0","2","4","-","0","5","-","0","1">>),
                    StrCell(<<"T","B","/","D">>)} }
    \cup { [AcmeFile EXCEPT !.rolls = r] :
             r \in {NoneCell, StrCell(<<"2","0"," ","p","c","s">>)} }
    \cup { [AcmeFile EXCEPT !.style = StrCell(<<"S",":","1"," ">>), !.color = NoneCell,
                            !.fabric_code = NumCell(7), !.suffix = TxtXlsm],
           [AcmeFile EXCEPT !.stem = <<"r","2">>] }

OrgInit ==
    /\ ofiles \in SeqsUpTo(OrgFiles, MaxOrgFiles)
    /\ opc = "start"
    /\ oi = 1
    /\ odata = NoData
    /\ place = [n \in 1..Len(ofiles) |-> IF ofiles[n].exists THEN "source" ELSE "absent"]
    /\ err_tried = [n \in 1..Len(ofiles) |-> FALSE]
    /\ organized_count = 0
    /\ final_path = [n \in 1..Len(ofiles) |-> NoPath]
    /\ moves = [n \in 1..Len(ofiles) |-> <<>>]

OrgIdle ==
    /\ ofiles = <<>>
    /\ opc = "idle"
    /\ oi = 1
    /\ odata = NoData
    /\ place = <<>>
    /\ err_tried = <<>>
    /\ organized_count = 0
    /\ final_path = <<>>
    /\ moves = <<>>

----------------------------------------------------------------------------
(* AutomationSystem.run, choice 1: data entry, then email, then organization,
   each on the same list initial_files *)

MaxFull == 2

\* one workbook as the three tasks read it: the cells the emailer reads, the
\* cells and the path the organizer reads, and whether it can be read at all
FullFile(mailfile, orgfile, ok) ==
    [mailfile EXCEPT !.buyer = orgfile.buyer, !.supplier = orgfile.supplier,
                     !.readable = ok]
        @@ orgfile @@ [extract_ok |-> ok, keys_ok |-> ok]

FullFailFile ==
    MakeFile(StrCell(TxtFAIL), NumCell(60), NumCell(57), NumCell(100), NumCell(0),
             NumCell(5), NumCell(2), <<>>)

FullFiles ==
    { FullFile(FullFailFile, AcmeFile, TRUE),
      FullFile(FullFailFile, [AcmeFile EXCEPT !.stem = <<"r","2">>], TRUE),
      FullFile(QuietPass(NumCell(1), <<MakeSheet(TxtPage1, "visible", TRUE, 2, {})>>),
               GoodOrgFile, TRUE),
      FullFile(QuietPass(NumCell(1), <<MakeSheet(TxtPage1, "visible", TRUE, 2, {2})>>),
               [GoodOrgFile EXCEPT !.supplier = StrCell(<<"T">>),
                                   !.consignment = NoneCell], TRUE),
      FullFile(QuietPass(StrCell(<<"n","a","n">>), <<>>), GoodOrgFile, TRUE),
      FullFile(QuietPass(NumCell(2), <<>>), GoodOrgFile, FALSE) }

\* the main workbook of the full process (its other states are those of EntryEnvs)
FullEnvs ==
    { EntryEnv(MinStartRow + 2, MinStartRow + 9, {MinStartRow + 1, MinStartRow + 3}) }

\* line 698: initial_files, handed to each of the three tasks
FullInit ==
    /\ files \in SeqsUpTo(FullFiles, MaxFull) \ {<<>>}
    /\ dfiles = files
    /\ ofiles = files
    /\ triggers = CHOOSE t \in TriggerSets : t.shading_percentage_threshold = 100
    /\ denv \in FullEnvs
    /\ dpc = "start" /\ epc = "wait" /\ opc = "wait"
    /\ di = 1 /\ ri = 1 /\ oi = 1
    /\ all_data_to_enter = <<>> /\ sorted_data = <<>>
    /\ next_row = 0 /\ sl_no_counter = 0 /\ ledger = <<>> /\ rows_entered = -1
    /\ excel_app = "none" /\ col_c = OldColumn(denv) /\ clear_raised = FALSE
    /\ all_reports = <<>> /\ loc = ZeroLoc /\ send_reason = ReasonNone /\ checked = <<>>
    /\ decision = [n \in 1..Len(files) |-> "NONE"]
    /\ reason_of = [n \in 1..Len(files) |-> ReasonNone]
    /\ reports_to_send = <<>> /\ reports_to_review = <<>>
    /\ review_folder = {} /\ reviewed_count = 0
    /\ attempted = <<>> /\ drafts = <<>> /\ drafts_created = 0 /\ mail_failed = FALSE
    /\ odata = NoData
    /\ place = [n \in 1..Len(files) |-> "source"]
    /\ err_tried = [n \in 1..Len(files) |-> FALSE]
    /\ organized_count = 0
    /\ final_path = [n \in 1..Len(files) |-> NoPath]
    /\ moves = [n \in 1..Len(files) |-> <<>>]

\* line 701: data entry has returned, the emailer is run
FullToEmail ==
    /\ dpc = "done"
    /\ epc = "wait"
    /\ epc' = "start"
    /\ UNCHANGED <<nonMailVars, triggers, files, all_reports, ri, loc, send_reason,
                   checked, decision, reason_of, reports_to_send, reports_to_review,
                   review_folder, reviewed_count, draftVars, wbVars>>

\* line 702: the emailer has returned, the organizer is run
FullToOrganize ==
    /\ epc = "returned"
    /\ opc = "wait"
    /\ opc' = "start"
    /\ UNCHANGED <<orgRest, oi, odata, place, err_tried, organized_count, final_path,
                   moves, wbVars>>

\* The files of initial_files were found by get_excel_files at line 693 and
\* nothing removes one before the organizer reaches it (FilesStayUntilOrganized
\* below), so the skip of lines 579-580 is no step of this process.
FullNext ==
    \/ EntryStart
    \/ EntryExtract
    \/ EntrySort
    \/ EntryOpen
    \/ EntryWriteRow
    \/ EntryWriteRaises
    \/ EntrySave
    \/ FullToEmail
    \/ RunStart
    \/ ClassifyStart
    \/ AnalyzeLoad
    \/ AnalyzeWidth
    \/ AnalyzeLength
    \/ AnalyzeAvgPoint
    \/ AnalyzeShading
    \/ ClassifyReturn
    \/ Route
    \/ CopyReview
    \/ MailDispatch
    \/ DraftOne
    \/ FullToOrganize
    \/ OrgStart
    \/ OrgRead
    \/ OrgMove
    \/ OrgError
    \/ OrgFinish

----------------------------------------------------------------------------
(* Specifications *)

\* _is_critical_shading on every value of ShadeInputs
InitShade == ShadeInit /\ MailIdle /\ EntryIdle /\ OrgIdle /\ WbInit

SpecShade == InitShade /\ [][CallIsCriticalShading]_vars

\* Emailer.run on every batch of MailInputs
InitMail == MailInit /\ ShadeIdle /\ EntryIdle /\ OrgIdle /\ WbInit

SpecMail == InitMail /\ [][MailNext]_vars

\* DataEntryHandler.run on every batch of EntryFiles
InitEntry == EntryInit /\ ShadeIdle /\ MailIdle /\ OrgIdle /\ WbInit

SpecEntry == InitEntry /\ [][EntryNext]_vars

\* FileOrganizer.run on every batch of OrgFiles
InitOrg == OrgInit /\ ShadeIdle /\ MailIdle /\ EntryIdle /\ WbInit

SpecOrg == InitOrg /\ [][OrgNext]_vars

\* the full process on every batch of FullFiles
InitFull == FullInit /\ ShadeIdle /\ WbInit

SpecFull == InitFull /\ [][FullNext]_vars

----------------------------------------------------------------------------
(* What the claims say of one report, stated on the workbook's cells *)

\* the report _classify_report is working on, and its result text lower-cased
CurIdx == all_reports[ri]
CurText == Lower(CellText(Cur.result))
TextHasFail ==
    Contains(CurText, <<"f","a","i","l">>)
        \/ Contains(CurText, <<"r","e","j","e","c","t","e","d">>)
TextHasPass == Contains(CurText, <<"p","a","s","s">>)

\* _classify_report has decided the current report
Classified == epc = "route"
\* _analyze_report_data has returned for the current report
Analyzed == epc = "ret" \/ (epc = "route" /\ checked # <<>>)
NoAnalysisError == send_reason # ReasonError

InSeq(x, q) == \E n \in 1..Len(q) : q[n] = x

StatedWidth(f, t) ==
    /\ safe_float(f.order_width) > 0
    /\ safe_float(f.actual_width) > 0
    /\ safe_float(f.order_width) - safe_float(f.actual_width)
          > t.width_shortage_tolerance_inch

StatedLength(f, t) ==
    /\ safe_float(f.ticked_yards) > 0
    /\ safe_float(f.total_short_excess) < 0
    /\ (0 - safe_float(f.total_short_excess)) * 100
          >= t.length_shortage_percentage * safe_float(f.ticked_yards)

StatedAvg(f, t) == safe_float(f.avg_point) >= t.avg_point_threshold

\* rolls (sheet n, group g of columns 2+4g .. 5+4g) with a critical cell in rows 15..17
StatedCriticalRolls(f) ==
    { p \in (1..Len(f.sheets)) \X (0..MaxCol) :
        LET sh == f.sheets[p[1]] IN
        /\ StartsWith(sh.title, <<"P","a","g","e"," ">>)
        /\ sh.sheet_state = "visible"
        /\ \E j \in (2 + 4 * p[2])..(5 + 4 * p[2]) :
              /\ j <= sh.max_column
              /\ \E k \in {15, 16, 17} : is_critical_shading(sh.cells[<<k, j>>]) }

StatedShading(f, t) ==
    /\ safe_float(f.check_roll) > 0
    /\ Cardinality(StatedCriticalRolls(f)) * 100
          >= t.shading_percentage_threshold * safe_float(f.check_roll)

StatedAnyCheck(f, t) ==
    StatedWidth(f, t) \/ StatedLength(f, t) \/ StatedAvg(f, t) \/ StatedShading(f, t)

----------------------------------------------------------------------------
(* Claims *)

\* C1: _classify_report returns exactly one of SEND and REVIEW.  Provided the
\* analysis raised no error, it returns SEND iff the lower-cased result text
\* contains "fail" or "rejected" (then no check is run, also when the text
\* contains "pass" too), or the text contains "pass" and one of the four checks
\* matches; a text with none of the three words is REVIEW with no check run.
C1_ClassifyTotal ==
    Classified =>
        /\ decision[CurIdx] \in {"SEND", "REVIEW"}
        /\ TextHasFail => decision[CurIdx] = "SEND" /\ checked = <<>>
        /\ (~TextHasFail /\ ~TextHasPass) => decision[CurIdx] = "REVIEW" /\ checked = <<>>
        /\ NoAnalysisError =>
              (decision[CurIdx] = "SEND" <=>
                  TextHasFail \/ (TextHasPass /\ StatedAnyCheck(Cur, triggers)))

\* a "Rejected" report decided SEND, with no check run
C1_Witness ==
    /\ Classified
    /\ CellText(Cur.result) = TxtRejected
    /\ decision[CurIdx] = "SEND"
    /\ checked = <<>>

\* C2 (as stated): a pass report whose analysis raised an error is routed as
\* REVIEW, never as SEND.
C2_ErrorIsReview ==
    \A n \in 1..Len(files) :
        (reason_of[n] = ReasonError /\ decision[n] # "NONE") => decision[n] = "REVIEW"

\* C3: for a pass report whose analysis raised no error, the checks run are a
\* prefix of width, length, average point, shading that ends with the first
\* matching check, whose reason is the one reported; with no match all four
\* are run and the reason stays N/A.
C3_FirstMatchWins ==
    (Analyzed /\ NoAnalysisError) =>
        LET w == StatedWidth(Cur, triggers)
            l == StatedLength(Cur, triggers)
            a == StatedAvg(Cur, triggers)
            h == StatedShading(Cur, triggers)
        IN  CASE w -> /\ checked = <<"width">>
                      /\ send_reason = ReasonWidth(triggers)
              [] ~w /\ l -> /\ checked = <<"width", "length">>
                            /\ send_reason = ReasonLength(triggers)
              [] ~w /\ ~l /\ a -> /\ checked = <<"width", "length", "avg">>
                                  /\ send_reason.kind = "Avg point >= threshold"
              [] ~w /\ ~l /\ ~a /\ h ->
                      /\ checked = <<"width", "length", "avg", "shading">>
                      /\ send_reason = ReasonShading(triggers)
              [] OTHER -> /\ checked = <<"width", "length", "avg", "shading">>
                          /\ send_reason = ReasonNone

\* width and length both match and a sheet holds critical rolls: the width
\* reason is reported and nothing else was evaluated
C3_Witness ==
    /\ Analyzed
    /\ NoAnalysisError
    /\ StatedWidth(Cur, triggers)
    /\ StatedLength(Cur, triggers)
    /\ StatedAvg(Cur, triggers)
    /\ StatedShading(Cur, triggers)
    /\ send_reason = ReasonWidth(triggers)
    /\ checked = <<"width">>

\* C4: _is_critical_shading: a value containing "/" is critical exactly when
\* the number before the first "/" is < 4; a value without "/" exactly when
\* its number is <= 4; an empty or blank value never.  "3/5" and "4" are
\* critical, "4/5" and "5" are not.
C4_ShadingCriticality ==
    sres \in {"True", "False"} =>
        LET text == IF sval.t = "num" THEN NumText(sval.v) ELSE sval.s
            slash == {i \in 1..Len(text) : text[i] = "/"}
            first == CHOOSE i \in slash : \A j \in slash : i <= j
            number(x) == safe_float(StrCell(x))
            critical ==
                IF sval.t = "none" \/ \A i \in 1..Len(text) : text[i] = " " THEN FALSE
                ELSE IF slash # {}
                     THEN number(SubSeq(text, 1, first - 1)) < 4
                     ELSE number(text) <= 4
        IN  /\ (sres = "True") <=> critical
            /\ sval = StrCell(<<"3","/","5">>) => sres = "True"
            /\ sval = StrCell(<<"4","/","5">>) => sres = "False"
            /\ sval = StrCell(<<"4">>) => sres = "True"
            /\ sval = StrCell(<<"5">>) => sres = "False"

\* "4/5" was judged, and is not critical although 4 alone is
C4_Witness == sval = StrCell(<<"4","/","5">>) /\ sres = "False"

C6_AvgPointInclusive ==
    (Analyzed /\ InSeq("avg", checked)) =>
        LET ap == safe_float(Cur.avg_point)
            hit == ap >= triggers.avg_point_threshold
        IN  /\ send_reason.kind = "Avg point >= threshold" <=> hit
            /\ hit => /\ send_reason.cites = <<ap, triggers.avg_point_threshold>>
                      /\ ~InSeq("shading", checked)
                      /\ Classified => decision[CurIdx] = "SEND"

\* average point equal to the threshold: SEND with the average point reason
C6_Witness ==
    /\ Classified
    /\ InSeq("avg", checked)
    /\ safe_float(Cur.avg_point) = triggers.avg_point_threshold
    /\ send_reason = ReasonAvg(loc, triggers)
    /\ decision[CurIdx] = "SEND"

\* C7: the width check sets its reason (and the report is SEND) exactly when
\* order width > 0, actual width > 0 and their difference > the tolerance; an
\* empty or non-numeric width cell never triggers it.
C7_WidthStrict ==
    (Analyzed /\ InSeq("width", checked)) =>
        LET ow == safe_float(Cur.order_width)
            aw == safe_float(Cur.actual_width)
            hit == ow > 0 /\ aw > 0
                   /\ ow - aw > triggers.width_shortage_tolerance_inch
        IN  /\ send_reason = ReasonWidth(triggers) <=> hit
            /\ hit => (Classified => decision[CurIdx] = "SEND")
            /\ (Cur.order_width.t # "num" \/ Cur.actual_width.t # "num") =>
                  send_reason # ReasonWidth(triggers)

\* a difference equal to the tolerance did not trigger the width check
C7_Witness ==
    /\ Analyzed
    /\ safe_float(Cur.order_width) - safe_float(Cur.actual_width)
          = triggers.width_shortage_tolerance_inch
    /\ safe_float(Cur.actual_width) > 0
    /\ InSeq("length", checked)
    /\ send_reason # ReasonWidth(triggers)

StatedKey(f) ==
    IF ~f.keys_ok THEN <<<<>>, 0, <<>>, 0>>
    ELSE LET digits == SelectSeq(CellText(f.consignment), IsDigit) IN
         << CellText(f.buyer),
            IF digits = <<>> THEN 0 ELSE DigitsValue(digits),
            CellText(f.result),
            safe_float(f.rolls) >>

\* a is before b: component by component, strings lexically, integers numerically
StatedBefore(a, b) ==
    \/ StrLess(a[1], b[1])
    \/ a[1] = b[1] /\ a[2] < b[2]
    \/ a[1] = b[1] /\ a[2] = b[2] /\ StrLess(a[3], b[3])
    \/ a[1] = b[1] /\ a[2] = b[2] /\ a[3] = b[3] /\ a[4] < b[4]

\* C9: the rows DataEntryHandler.run writes are in ascending order of the key
\* (buyer, consignment as integer, result, roll count), reports with equal keys
\* in encounter order; when run returns a positive count every extracted
\* report has its row.
C9_LedgerOrder ==
    /\ \A i, j \in 1..Len(ledger) :
          i < j =>
             LET a == StatedKey(dfiles[ledger[i].file_name])
                 b == StatedKey(dfiles[ledger[j].file_name])
             IN  /\ ledger[i].row < ledger[j].row
                 /\ \/ StatedBefore(a, b)
                    \/ a = b /\ ledger[i].file_name < ledger[j].file_name
    /\ (dpc = "done" /\ rows_entered > 0) =>
          {ledger[i].file_name : i \in 1..Len(ledger)}
             = {n \in 1..Len(dfiles) : dfiles[n].extract_ok}

\* the batch (A,2,Pass,10), (A,1,Fail,5), (B,1,Pass,1) is written as
\* (A,1,Fail,5), (A,2,Pass,10), (B,1,Pass,1)
C9_Witness ==
    /\ dpc = "done"
    /\ rows_entered = 3
    /\ dfiles = << EntryFile(<<"A">>, StrCell(<<"2">>), TxtPass, 10),
                   EntryFile(<<"A">>, NumCell(1), TxtFAIL, 5),
                   EntryFile(<<"B">>, StrCell(<<"1">>), TxtPass, 1) >>
    /\ <<ledger[1].file_name, ledger[2].file_name, ledger[3].file_name>> = <<2, 1, 3>>

\* two reports with equal keys were written, in encounter order
C9_WitnessTie ==
    /\ dpc = "done"
    /\ rows_entered = 3
    /\ \E i \in 1..2 :
          /\ StatedKey(dfiles[ledger[i].file_name]) = StatedKey(dfiles[ledger[i + 1].file_name])
          /\ ledger[i].file_name < ledger[i + 1].file_name
          /\ ledger[i].file_name # 1

\* a cell the claim calls missing: blank, or empty once stripped and sanitized
StatedMissing(cell) ==
    \/ cell.t = "none"
    \/ cell.t = "str" /\ \A i \in 1..Len(cell.s) : cell.s[i] \in ForbiddenChars \cup {" "}

\* the organizer is done with file n
Organized(n) == n < oi \/ opc \in {"cleanup", "done"}

\* C10: an existing report whose buyer, supplier or consignment is missing is
\* never moved into the destination tree and never counted: the move to the
\* error directory is attempted, and the file is there unless that move failed.
C10_MissingFieldIsError ==
    /\ organized_count = Cardinality({n \in 1..Len(ofiles) : place[n] = "dest"})
    /\ \A n \in 1..Len(ofiles) :
          ( /\ Organized(n)
            /\ ofiles[n].exists
            /\ \/ StatedMissing(ofiles[n].buyer)
               \/ StatedMissing(ofiles[n].supplier)
               \/ StatedMissing(ofiles[n].consignment) )
          => /\ place[n] \in {"error", "source"}
             /\ err_tried[n]

\* a report with only the consignment cell blank is in the error directory,
\* next to a complete report that was organized
C10_Witness ==
    /\ opc = "done"
    /\ Len(ofiles) = 2
    /\ ofiles[1] = GoodOrgFile
    /\ ofiles[2] = [GoodOrgFile EXCEPT !.consignment = NoneCell]
    /\ place = <<"dest", "error">>
    /\ organized_count = 1

\* a text with the characters \ / * ? : " < > | taken out
RECURSIVE StatedSanitized(_)
StatedSanitized(s) ==
    IF s = <<>> THEN <<>>
    ELSE IF Head(s) \in {"\\", "/", "*", "?", ":", "\"", "<", ">", "|"}
         THEN StatedSanitized(Tail(s))
         ELSE <<Head(s)>> \o StatedSanitized(Tail(s))

\* the trimmed text of a cell with those characters taken out
StatedComponent(cell) == StatedSanitized(CellText(cell))

\* consignment and rolls: the integer value of the cell in decimal, empty for
\* 0 and for a cell that holds no number ("nan" stays as it is written)
StatedNumberComponent(cell) ==
    IF cell.t = "str" /\ Lower(Strip(cell.s)) = <<"n","a","n">>
    THEN StatedComponent(cell)
    ELSE LET n == safe_float(cell) IN IF n = 0 THEN <<>> ELSE NumText(n)

\* the date in brackets as dd-mm-yy, or the sanitized text of a cell that holds no date
StatedDate(cell) ==
    IF cell.t = "str" /\ ~IsIsoDate(Strip(cell.s))
    THEN <<"(">> \o StatedComponent(cell) \o <<")">>
    ELSE format_date(cell)

\* <buyer>/CON-<consignment> (<dd-mm-yy>)/<style>, COLOR-<color>, Roll-<rolls>,
\* <fabric_code><extension>, with the consignment and rolls components given
StatedPath(f, consignment, rolls) ==
    << StatedComponent(f.buyer),
       <<"C","O","N","-">> \o consignment \o <<" ">> \o StatedDate(f.date),
       StatedComponent(f.style) \o <<",", " ", "C","O","L","O","R","-">>
           \o StatedComponent(f.color) \o <<",", " ", "R","o","l","l","-">> \o rolls
           \o <<",", " ">> \o StatedComponent(f.fabric_code) \o f.suffix >>

TxtAcmeFolder == <<"C","O","N","-","1","2"," ","(","0","1","-","0","5","-","2","4",")">>
TxtAcmeFilename ==
    <<"S","1",","," ","C","O","L","O","R","-","R","e","d",","," ","R","o","l","l","-",
      "2","0",","," ","F","C","1",".","x","l","s","x">>

AnalysisSteps == {"width", "length", "avg", "shading"}

\* C12: a workbook is open only inside the analysis of the current report or in
\* the organizer's handler for the current file, which closes it; never are two
\* workbooks open together, none is open when the next report begins, and once
\* DataEntryHandler.run has returned the Excel application it started is quit.
C12_HandlesScoped ==
    /\ wb_peak <= 1
    /\ wb_open # {} =>
          \/ epc \in AnalysisSteps /\ wb_open = {AnalyzeHandle}
          \/ opc = "except" /\ wb_open = {OrgHandle(oi)}
    /\ dpc = "done" => excel_app # "running"

\* every task has run: a workbook was opened, an analysis raised, the organizer
\* handled a failed file, Excel was started and a write raised, and nothing is open
C12_Witness ==
    /\ opc = "done"
    /\ wb_peak = 1 /\ wb_open = {}
    /\ \E n \in 1..Len(files) : reason_of[n] = ReasonError
    /\ \E n \in 1..Len(ofiles) : err_tried[n]
    /\ excel_app = "quit" /\ rows_entered = 0 /\ sorted_data # <<>>

\* the serial numbers in the body of the table that this run did not write
StaleSerials ==
    {p \in col_c : /\ p[1] \in 2..denv.table_last_row
                   /\ ~\E k \in 1..Len(ledger) :
                         ledger[k].row = p[1] /\ ledger[k].sl_no = p[2]}

\* the k-th report in sorted order is in row start + k - 1 with serial number k,
\* no row is below MinStartRow and no two reports share a row
RowsAppended ==
    /\ Len(ledger) <= Len(sorted_data)
    /\ \A k \in 1..Len(ledger) :
          /\ ledger[k].row = StartRow(denv.first_empty_row) + k - 1
          /\ ledger[k].sl_no = k
          /\ ledger[k].file_name = sorted_data[k].file_name
          /\ ledger[k].row >= MinStartRow
          /\ <<ledger[k].row, k>> \in col_c
    /\ \A j, k \in 1..Len(ledger) : j # k => ledger[j].row # ledger[k].row

\* the run is past the clearing of the serial numbers
PastClearing == dpc \in {"write", "save"} \/ ledger # <<>>

\* C13 (amended): unless the clearing of the serial numbers raised (which is
\* only logged), the serial-number column of the table holds nothing but this
\* run's numbers from the first written row on; the k-th report in sorted order
\* is written to row start + k - 1 with serial number k, start being the first
\* empty row but never less than 181, and no two reports share a row.
C13_LedgerAppend ==
    /\ RowsAppended
    /\ (PastClearing /\ ~clear_raised) => StaleSerials = {}

\* three reports written from row 183 on into a table whose old serial numbers
\* were cleared
C13_Witness ==
    /\ dpc = "done" /\ rows_entered = 3
    /\ ~clear_raised
    /\ denv.old_rows # {} /\ denv.first_empty_row > MinStartRow
    /\ StaleSerials = {}
    /\ Len(ledger) = 3 /\ ledger[3].row = denv.first_empty_row + 2

\* C13 (as stated): in every run the serial-number column is cleared before any
\* row is written, and the rows are appended as above.
C13_LedgerAppendAsStated ==
    /\ RowsAppended
    /\ PastClearing => StaleSerials = {}

\* the (buyer, supplier) pair of the n-th file, as _get_report_data reads it
StatedPair(n) == <<CellText(files[n].buyer), CellText(files[n].supplier)>>

\* the files classified SEND
SentFiles == {n \in 1..Len(files) : decision[n] = "SEND"}

\* the result text of the n-th file contains "fail" or "rejected"
FileHasFail(n) ==
    LET text == Lower(CellText(files[n].result))
    IN  Contains(text, <<"f","a","i","l">>)
            \/ Contains(text, <<"r","e","j","e","c","t","e","d">>)

DraftKeys == {drafts[i].key : i \in 1..Len(drafts)}

\* C14: the drafts are one per (buyer, supplier) pair of the reports classified
\* SEND and none for another pair; a draft goes to the primary recipient exactly
\* when a report of its group has a fail or rejected result, else to the
\* secondary one; it attaches exactly the files of its group; it is saved and
\* never sent.  When the run returns without a mail client failure every pair
\* has its draft.
C14_Drafts ==
    /\ \A i \in 1..Len(drafts) :
          LET d == drafts[i]
              group == {n \in SentFiles : StatedPair(n) = d.key}
          IN  /\ group # {}
              /\ SeqRange(d.attachments) = group
              /\ Len(d.attachments) = Cardinality(group)
              /\ d.to \in {"primary_recipient", "secondary_recipient"}
              /\ d.to = "primary_recipient" <=> \E n \in group : FileHasFail(n)
              /\ d.saved /\ ~d.sent
    /\ \A i, j \in 1..Len(drafts) : i # j => drafts[i].key # drafts[j].key
    /\ drafts_created = Len(drafts)
    /\ (epc = "returned" /\ ~mail_failed) => DraftKeys = {StatedPair(n) : n \in SentFiles}

\* a fail report and a pass report short in width of the same buyer and supplier
\* (the supplier once written with blanks) share one draft to the primary recipient
C14_Witness ==
    /\ epc = "returned" /\ ~mail_failed
    /\ Len(drafts) = 1
    /\ Len(drafts[1].attachments) = 2
    /\ drafts[1].to = "primary_recipient"
    /\ \E n \in SentFiles : ~FileHasFail(n) /\ files[n].supplier # files[3 - n].supplier

\* every file of the batch has had its move attempted by the organizer
AllFilesOrganized == \A n \in 1..Len(ofiles) : moves[n] # <<>>

\* C15: after a mail client failure Emailer.run has returned normally, its
\* counts being the drafts saved before the failure and the review copies made
\* before the drafts were begun; no group is attempted twice and none after the
\* failure; and the organizer, which runs only once the emailer has returned,
\* still goes over every file of the batch.
C15_MailFailureContained ==
    /\ mail_failed =>
          /\ epc = "returned"
          /\ drafts_created = Len(drafts)
          /\ Len(attempted) \in {Len(drafts), Len(drafts) + 1}
          /\ reviewed_count = Cardinality(review_folder)
          /\ review_folder \subseteq SeqRange(reports_to_review)
    /\ \A i, j \in 1..Len(attempted) : i # j => attempted[i] # attempted[j]
    /\ Len(attempted) <= Len(drafts) + 1
    /\ opc # "wait" => epc = "returned"
    /\ opc = "done" => AllFilesOrganized

\* the mail client raised on the second draft; the first is counted, and the
\* organizer has gone over both files
C15_Witness ==
    /\ mail_failed
    /\ drafts_created = 1 /\ Len(attempted) = 2
    /\ opc = "done"
    /\ Len(ofiles) = 2 /\ AllFilesOrganized

\* the reports of the batch whose extraction succeeded
ExtractedFiles == {n \in 1..Len(dfiles) : dfiles[n].extract_ok}

FileNamesOf(q) == {q[k].file_name : k \in 1..Len(q)}

\* DataEntryHandler.run has returned after writing every row
WriteSucceeded ==
    /\ dpc = "done"
    /\ dfiles # <<>>
    /\ denv.main_exists /\ denv.excel_ok /\ denv.table_found
    /\ Len(ledger) = Len(sorted_data)

\* C16: a report whose extraction failed has no ledger row; once the extraction
\* loop is over the collected reports are exactly those whose extraction
\* succeeded, each once, the sorted list holds the same reports, and when the
\* write succeeds each of them has its row and the returned count is their number.
C16_ExtractionIsolated ==
    /\ FileNamesOf(ledger) \subseteq ExtractedFiles
    /\ dpc \notin {"start", "extract"} =>
          /\ FileNamesOf(all_data_to_enter) = ExtractedFiles
          /\ Len(all_data_to_enter) = Cardinality(ExtractedFiles)
    /\ dpc \notin {"start", "extract", "sort"} =>
          /\ FileNamesOf(sorted_data) = ExtractedFiles
          /\ Len(sorted_data) = Cardinality(ExtractedFiles)
    /\ WriteSucceeded =>
          /\ FileNamesOf(ledger) = ExtractedFiles
          /\ rows_entered = Cardinality(ExtractedFiles)

\* of three reports the second could not be read: the other two are written
\* and the count returned is 2
C16_Witness ==
    /\ WriteSucceeded
    /\ Len(dfiles) = 3
    /\ ~dfiles[2].extract_ok
    /\ FileNamesOf(ledger) = {1, 3}
    /\ rows_entered = 2

\* the emailer copies and never moves: when the organizer starts every file of
\* the batch is at its source path
FilesStayUntilOrganized ==
    opc \in {"wait", "start"} => \A n \in 1..Len(ofiles) : place[n] = "source"

\* at most one move into the destination tree per file, and a move to the error
\* directory only from the handler, once
MovesAsStated ==
    \A n \in 1..Len(ofiles) :
        /\ moves[n] \in {<<>>, <<"dest">>, <<"error">>, <<"dest", "error">>}
        /\ InSeq("error", moves[n]) <=> err_tried[n]

\* no move call of the run has raised
MovesSucceeded ==
    \A n \in 1..Len(ofiles) :
        /\ InSeq("dest", moves[n]) => place[n] = "dest"
        /\ InSeq("error", moves[n]) => place[n] = "error"

\* shutil.move onto a path where a file lies replaces that file, so of the files
\* moved to one path the last is the one found there
LiesInDestination(n) ==
    /\ place[n] = "dest"
    /\ ~\E m \in (n + 1)..Len(ofiles) :
          place[m] = "dest" /\ final_path[m] = final_path[n]

LiesInErrorDir(n) ==
    /\ place[n] = "error"
    /\ ~\E m \in (n + 1)..Len(ofiles) :
          place[m] = "error" /\ FileName(ofiles[m]) = FileName(ofiles[n])

\* the routing apart from where the files lie in the end
RoutingSteps ==
    /\ FilesStayUntilOrganized
    /\ MovesAsStated
    /\ opc = "done" => AllFilesOrganized
    /\ opc = "done" => organized_count = Cardinality({n \in 1..Len(ofiles) : place[n] = "dest"})
    /\ (opc = "done" /\ MovesSucceeded) =>
          \A n \in 1..Len(ofiles) : place[n] \in {"dest", "error"}

\* C17 (as stated): every file is at its source path when the organizer starts;
\* the organizer moves each file at most once towards the destination tree and,
\* only after something raised, once to the error directory; no file stops the
\* later ones; the count is the number of files moved into the destination
\* tree; and if no move raised, every file of the batch lies in the end in the
\* destination tree or in the error directory.
C17_FileRouting ==
    /\ RoutingSteps
    /\ (opc = "done" /\ MovesSucceeded) =>
          \A n \in 1..Len(ofiles) : LiesInDestination(n) \/ LiesInErrorDir(n)

\* the same for batches in which no two files are moved to one path
C17_RoutingWithoutCollision ==
    /\ RoutingSteps
    /\ (opc = "done" /\ MovesSucceeded
          /\ \A m, n \in 1..Len(ofiles) :
                m # n => /\ ~(place[m] = "dest" /\ place[n] = "dest"
                               /\ final_path[m] = final_path[n])
                         /\ ~(place[m] = "error" /\ place[n] = "error"
                               /\ FileName(ofiles[m]) = FileName(ofiles[n]))) =>
          \A n \in 1..Len(ofiles) : LiesInDestination(n) \/ LiesInErrorDir(n)

\* a non-blank shading text whose part before "/" (the whole text without "/")
\* is no number
StatedTextCell(c) ==
    /\ c.t = "str"
    /\ Strip(c.s) # <<>>
    /\ LET part == IF Contains(Strip(c.s), <<"/">>) THEN BeforeSlash(Strip(c.s))
                   ELSE Strip(c.s)
       IN  ~FloatParses(part) /\ ~NonFiniteText(part)

\* the rolls of the visible "Page " sheets with such a text in rows 15-17
TextRolls(f) ==
    { p \in (1..Len(f.sheets)) \X (0..MaxCol) :
        LET sh == f.sheets[p[1]] IN
        /\ StartsWith(sh.title, <<"P","a","g","e"," ">>)
        /\ sh.sheet_state = "visible"
        /\ \E j \in (2 + 4 * p[2])..(5 + 4 * p[2]) :
              /\ j <= sh.max_column
              /\ \E k \in {15, 16, 17} : StatedTextCell(sh.cells[<<k, j>>]) }

\* C18: a non-blank shading cell in rows 15-17 whose text is no number is
\* critical, so every roll with such a cell is among the critical rolls, and
\* when these rolls alone reach the shading threshold the shading check
\* triggers and the report is sent.
C18_TextShadingIsCritical ==
    (Analyzed /\ NoAnalysisError /\ InSeq("shading", checked)) =>
        LET cr == safe_float(Cur.check_roll) IN
        /\ \A n \in 1..Len(Cur.sheets) : \A q \in DOMAIN Cur.sheets[n].cells :
              StatedTextCell(Cur.sheets[n].cells[q])
                  => is_critical_shading(Cur.sheets[n].cells[q])
        /\ TextRolls(Cur) \subseteq StatedCriticalRolls(Cur)
        /\ (cr > 0 /\ Cardinality(TextRolls(Cur)) * 100
                         >= triggers.shading_percentage_threshold * cr) =>
              /\ send_reason = ReasonShading(triggers)
              /\ Classified => decision[CurIdx] = "SEND"

\* a pass report of two checked rolls whose only shading entries are "N/A", one
\* in each roll: both rolls count and the report is sent at a threshold of 100
C18_Witness ==
    /\ Classified
    /\ decision[CurIdx] = "SEND"
    /\ send_reason = ReasonShading(triggers)
    /\ triggers.shading_percentage_threshold = 100
    /\ safe_float(Cur.check_roll) = 2
    /\ Cardinality(TextRolls(Cur)) = 2
    /\ TextRolls(Cur) = StatedCriticalRolls(Cur)
    /\ \A q \in DOMAIN Cur.sheets[1].cells :
          q[1] \in {15, 16, 17} => Cur.sheets[1].cells[q] \in {NoneCell, StrCell(TxtNA)}

====
